---- MODULE Spec2Model ----
(***************************************************************************)
(* Digitarr: the release-discovery -> filter -> multi-sink dispatch        *)
(* pipeline (release_checker.py, filters.py, overseerr_requester.py,        *)
(* riven_requester.py, discord_notifier.py).                                *)
(*                                                                         *)
(* Every object of the pipeline is stateless after construction, so a      *)
(* behaviour is: construct one object from a configuration, then run one   *)
(* of its operations on one input against one behaviour of the remote      *)
(* service.  The operation's input, the service's behaviour, the value     *)
(* returned (or the exception raised) and the HTTP requests issued, in     *)
(* order, are kept in the state.                                           *)
(***************************************************************************)
EXTENDS Integers, Sequences, FiniteSets, TLC

VARIABLES
    self,   \* the object under construction / in use (NoObject before __init__)
    op,     \* name of the constructor or method that ran last ("start" initially)
    arg,    \* the argument it was called with
    env,    \* what the remote services answered during the call
    ret,    \* what the call returned, or the exception it raised
    http    \* the HTTP requests the call issued, in order

vars == <<self, op, arg, env, ret, http>>

(***************************************************************************)
(* Bounds of the model.                                                    *)
(***************************************************************************)
MaxId == 2          \* catalog ids are 1..MaxId (plus 0 and None)
MaxReleases == 2    \* longest list of releases handed to a sink
MaxEntries == 2     \* most release entries (over all countries) of one movie
MaxCandidates == 2  \* most candidates in one discovery answer

(***************************************************************************)
(* Python values.  A value carries its type tag; a dict is a function from *)
(* its keys (strings) to values, so that dict.get(key, default) can tell   *)
(* an absent key from a key bound to None; a str is a sequence of          *)
(* one-character strings.                                                  *)
(***************************************************************************)
None == [t |-> "None"]
PyInt(i) == [t |-> "int", v |-> i]
PyStr(s) == [t |-> "str", v |-> s]
PyBool(b) == [t |-> "bool", v |-> b]
PyDict(d) == [t |-> "dict", v |-> d]
PyList(l) == [t |-> "list", v |-> l]
EmptyDict == <<>>

\* dict.get(k, dflt) on the mapping d
Get(d, k, dflt) == IF k \in DOMAIN d THEN d[k] ELSE dflt

\* bool(x): Python truthiness
Truthy(x) ==
    CASE x.t = "None" -> FALSE
      [] x.t = "int"  -> x.v # 0
      [] x.t = "float" -> x.v # 0
      [] x.t = "str"  -> x.v # <<>>
      [] x.t = "bool" -> x.v
      [] x.t = "dict" -> DOMAIN x.v # {}
      [] x.t = "list" -> x.v # <<>>
      [] OTHER        -> TRUE

\* outcome of a call: a returned value or a raised exception
Return(v) == [kind |-> "return", v |-> v]
Raise(e) == [kind |-> "raise", exc |-> e]

\* behaviour of the remote end of one HTTP request: the request fails at
\* network level (requests.exceptions.RequestException), or a response with a
\* status code and a body arrives.  json is the decoded body, or NotJson when
\* response.json() raises.
NetworkError == [kind |-> "raise", exc |-> "RequestException"]
NotJson == [t |-> "notjson"]
\* the same with a requests release whose json() raises a plain ValueError
NotJsonValueError == [t |-> "notjson", exc |-> "ValueError"]
Response(code, body) == [kind |-> "response", status_code |-> code, json |-> body]

\* all sequences over S of length at most n
SeqsUpTo(S, n) == UNION {[1..k -> S] : k \in 0..n}

\* all dicts whose keys are a subset of K, with values in V
DictsOver(K, V) == UNION {[D -> V] : D \in SUBSET K}

NoObject == [cls |-> "None"]

\* str(i) for an int i >= 0: its decimal digits
Digit(d) == <<"0", "1", "2", "3", "4", "5", "6", "7", "8", "9">>[d + 1]
RECURSIVE Digits(_)
Digits(i) == IF i < 10 THEN <<Digit(i)>> ELSE Append(Digits(i \div 10), Digit(i % 10))
\* str(x) of a value: "None" for None, the digits for an int
PyStrOf(x) ==
    CASE x.t = "None" -> PyStr(<<"N", "o", "n", "e">>)
      [] x.t = "int"  -> PyStr(Digits(x.v))
      [] OTHER        -> x

(***************************************************************************)
(* Inputs shared by the sinks.                                             *)
(***************************************************************************)
\* values a credential / endpoint setting takes in a configuration section:
\* null, the empty string, or a non-empty string
Empty == PyStr(<<>>)
NonEmpty == PyStr(<<"x">>)
Settings == {None, Empty, NonEmpty}

\* a section of the configuration: each of api_url / api_key absent or set
SinkSections == DictsOver({"api_url", "api_key"}, Settings)

\* tmdb_id of a release: an integer catalog id, 0, or None
TmdbIds == {None, PyInt(0)} \cup {PyInt(i) : i \in 1..MaxId}

\* HTTP requests as recorded in http
HttpGet(url, path) == [method |-> "GET", url |-> url, path |-> path]
HttpPost(url, path, json) == [method |-> "POST", url |-> url, path |-> path, json |-> json]

(***************************************************************************)
(* OverseerrRequester (overseerr_requester.py)                             *)
(***************************************************************************)
OverseerrDefaultUrl == PyStr(<<"o">>)       \* "http://localhost:5055"

\* configurations: the "overseerr" section absent or present
OverseerrConfigs == {EmptyDict} \cup {[overseerr |-> s] : s \in SinkSections}

\* the constructor accepts a missing api_key (as RivenRequester does)
OverseerrRequester_init_lenient(config) ==
    LET section == Get(config, "overseerr", EmptyDict)
    IN  [obj |-> [cls |-> "OverseerrRequester",
                  api_url |-> Get(section, "api_url", PyStr(<<"o">>)),
                  api_key |-> Get(section, "api_key", PyStr(<<>>))],
         ret |-> Return(None)]

\* __init__: reads api_url and api_key; raises ValueError without an api_key
OverseerrRequester_init(config) ==
    LET section == Get(config, "overseerr", EmptyDict)
        api_url == Get(section, "api_url", OverseerrDefaultUrl)
        api_key == Get(section, "api_key", Empty)
    IN  IF ~Truthy(api_key)
        THEN [obj |-> NoObject, ret |-> Raise("ValueError")]
        ELSE [obj |-> [cls |-> "OverseerrRequester", api_url |-> api_url,
                       api_key |-> api_key],
              ret |-> Return(None)]

\* answers of the backend to the status check GET /api/v1/movie/{id}.
\* mediaInfo is absent, null, or an object whose status is absent, null or
\* an ordinal 0..5 (1=unknown, 2=pending, 3=processing, 4=partially
\* available, 5=available), or a string where a number is expected.
MediaStatuses == {None, PyStr(<<"5">>)} \cup {PyInt(i) : i \in 0..5}
MediaInfos == {None, PyDict(EmptyDict)} \cup {PyDict([status |-> st]) : st \in MediaStatuses}
CheckBodies == {NotJson, PyDict(EmptyDict)} \cup {PyDict([mediaInfo |-> mi]) : mi \in MediaInfos}
CheckOutcomes ==
    {NetworkError} \cup {Response(200, b) : b \in CheckBodies}
                   \cup {Response(c, NotJson) : c \in {404, 500}}

\* answers of the backend to POST /api/v1/request
PostStatuses == {200, 201, 204, 400, 404, 409, 500}
PostOutcomes == {NetworkError} \cup {Response(c, NotJson) : c \in PostStatuses}

\* the status check with the threshold off by one (status > 2)
_is_already_requested_above_pending(obj, tmdb_id, check) ==
    /\ check.kind = "response"
    /\ check.status_code = 200
    /\ check.json.t = "dict"
    /\ LET media_info == Get(check.json.v, "mediaInfo", PyDict(EmptyDict)) IN
       /\ media_info.t = "dict"
       /\ LET status == Get(media_info.v, "status", None) IN
          status.t = "int" /\ status.v > 2

\* _is_already_requested: TRUE iff the GET answers 200 and the body carries
\* mediaInfo.status, truthy and >= 2.  Every exception (network failure,
\* undecodable body, mediaInfo null, status not a number) is caught and
\* reported as FALSE.
_is_already_requested(obj, tmdb_id, check) ==
    IF check.kind = "raise" THEN FALSE
    ELSE IF check.status_code = 200
    THEN LET data == check.json IN
         IF data.t # "dict" THEN FALSE                      \* json() raised
         ELSE LET media_info == Get(data.v, "mediaInfo", PyDict(EmptyDict)) IN
              IF media_info.t # "dict" THEN FALSE           \* None.get: AttributeError
              ELSE LET status == Get(media_info.v, "status", None) IN
                   IF ~Truthy(status) THEN FALSE
                   ELSE IF status.t # "int" THEN FALSE      \* str >= int: TypeError
                   ELSE status.v >= 2
    ELSE FALSE

\* the POST fails to answer 409 as success (treats it like any other status)
PostResult_conflict_fails(post) ==
    IF post.kind = "raise" THEN FALSE
    ELSE post.status_code \in {200, 201}

\* what request_media returns once the POST is made: False on a network
\* failure (caught), True on 200 / 201 and on 409, False on any other status
PostResult(post) ==
    IF post.kind = "raise" THEN FALSE
    ELSE IF post.status_code \in {200, 201} THEN TRUE
    ELSE IF post.status_code = 409 THEN TRUE
    ELSE FALSE

\* request_media: the value returned and the HTTP requests issued, given the
\* backend's answer to the status check and to the POST.  Catalog ids are
\* integers, so int(tmdb_id) is tmdb_id.
request_media(obj, release, check, post) ==
    LET tmdb_id == Get(release, "tmdb_id", None) IN
    IF ~Truthy(tmdb_id)
    THEN [ret |-> Return(FALSE), http |-> <<>>]
    ELSE LET get == HttpGet(obj.api_url, <<"movie", tmdb_id>>) IN
         IF _is_already_requested(obj, tmdb_id, check)
         THEN [ret |-> Return(FALSE), http |-> <<get>>]
         ELSE LET payload == [mediaId |-> tmdb_id.v, mediaType |-> "movie"]
              IN  [ret |-> Return(PostResult(post)),
                   http |-> <<get, HttpPost(obj.api_url, <<"request">>, payload)>>]

\* releases handed to request_media: tmdb_id absent, None, 0 or a catalog id
OverseerrReleases ==
    {[type |-> "movie", tmdb_id |-> id] : id \in TmdbIds} \cup {[type |-> "movie"]}

NewOverseerrRequester ==
    /\ op = "start"
    /\ \E config \in OverseerrConfigs :
          LET r == OverseerrRequester_init(config) IN
          /\ self' = r.obj
          /\ op' = "OverseerrRequester.__init__"
          /\ arg' = config
          /\ ret' = r.ret
          /\ UNCHANGED <<env, http>>

CallRequestMedia ==
    /\ op = "OverseerrRequester.__init__"
    /\ self.cls = "OverseerrRequester"
    /\ \E release \in OverseerrReleases, check \in CheckOutcomes, post \in PostOutcomes :
          LET r == request_media(self, release, check, post) IN
          /\ op' = "request_media"
          /\ arg' = release
          /\ env' = [check |-> check, post |-> post]
          /\ ret' = r.ret
          /\ http' = r.http
          /\ UNCHANGED self

(***************************************************************************)
(* RivenRequester (riven_requester.py)                                     *)
(***************************************************************************)
RivenDefaultUrl == PyStr(<<"r">>)           \* "http://localhost:8083"

RivenConfigs == {EmptyDict} \cup {[riven |-> s] : s \in SinkSections}

\* __init__: reads api_url and api_key, warns without an api_key, never raises
RivenRequester_init(config) ==
    LET section == Get(config, "riven", EmptyDict)
        api_url == Get(section, "api_url", RivenDefaultUrl)
        api_key == Get(section, "api_key", Empty)
    IN  [obj |-> [cls |-> "RivenRequester", api_url |-> api_url, api_key |-> api_key],
         ret |-> Return(None)]

\* enabled as soon as an api_key is given, whatever the api_url
Riven_is_enabled_key_only(obj) == Truthy(obj.api_key)

\* is_enabled: bool(api_key) and bool(api_url)
Riven_is_enabled(obj) == Truthy(obj.api_key) /\ Truthy(obj.api_url)

\* answers of the backend to POST /api/v1/items/add
RivenStatuses == {200, 201, 404, 422, 500}
RivenOutcomes == {NetworkError} \cup {Response(c, NotJson) : c \in RivenStatuses}

\* the ids sent: [str(r.get("tmdb_id")) for r in releases if r.get("tmdb_id")]
RECURSIVE TmdbIdsOf(_)
TmdbIdsOf(releases) ==
    IF releases = <<>> THEN <<>>
    ELSE LET id == Get(Head(releases), "tmdb_id", None) IN
         (IF Truthy(id) THEN <<PyStrOf(id)>> ELSE <<>>) \o TmdbIdsOf(Tail(releases))

\* _add_items: one POST carrying every id; the counts come from len(tmdb_ids)
\* when a response arrives and from len(releases) when there is no id to send
\* or the request fails at network level
_add_items(obj, media_type, releases, post) ==
    LET tmdb_ids == TmdbIdsOf(releases) IN
    IF tmdb_ids = <<>>
    THEN [ret |-> Return([success |-> 0, failed |-> Len(releases), results |-> <<>>]),
          http |-> <<>>]
    ELSE LET payload == [media_type |-> media_type, tmdb_ids |-> tmdb_ids]
             sent == <<HttpPost(obj.api_url, <<"items", "add">>, payload)>>
         IN  IF post.kind = "raise"
             THEN [ret |-> Return([success |-> 0, failed |-> Len(releases),
                                   results |-> <<[status |-> "error"]>>]),
                   http |-> sent]
             ELSE IF post.status_code = 200
             THEN [ret |-> Return([success |-> Len(tmdb_ids), failed |-> 0,
                                   results |-> <<[status |-> "success", ids |-> tmdb_ids]>>]),
                   http |-> sent]
             ELSE \* 404, 422 and every other status: the same counts
                  [ret |-> Return([success |-> 0, failed |-> Len(tmdb_ids),
                                   results |-> <<[status |-> "error",
                                                  code |-> post.status_code]>>]),
                   http |-> sent]

\* r.get("type") == "movie"
IsMovie(r) == "type" \in DOMAIN r /\ r.type = "movie"

\* add_media: nothing when the sink is not enabled; otherwise the releases
\* tagged "movie" go to _add_items
add_media(obj, releases, post) ==
    IF ~Riven_is_enabled(obj)
    THEN [ret |-> Return([success |-> 0, failed |-> 0, results |-> <<>>]), http |-> <<>>]
    ELSE LET movies == SelectSeq(releases, IsMovie) IN
         IF movies # <<>>
         THEN _add_items(obj, "movie", movies, post)
         ELSE [ret |-> Return([success |-> 0, failed |-> 0, results |-> <<>>]),
               http |-> <<>>]

\* releases handed to add_media: tagged movie or tv, with or without an id
RivenReleases ==
    {[type |-> ty, tmdb_id |-> id] : ty \in {"movie", "tv"},
                                     id \in {None} \cup {PyInt(i) : i \in 1..MaxId}}

NewRivenRequester ==
    /\ op = "start"
    /\ \E config \in RivenConfigs :
          LET r == RivenRequester_init(config) IN
          /\ self' = r.obj
          /\ op' = "RivenRequester.__init__"
          /\ arg' = config
          /\ ret' = r.ret
          /\ UNCHANGED <<env, http>>

CallAddMedia ==
    /\ op = "RivenRequester.__init__"
    /\ self.cls = "RivenRequester"
    /\ \E releases \in SeqsUpTo(RivenReleases, MaxReleases), post \in RivenOutcomes :
          LET r == add_media(self, releases, post) IN
          /\ op' = "add_media"
          /\ arg' = releases
          /\ env' = [post |-> post]
          /\ ret' = r.ret
          /\ http' = r.http
          /\ UNCHANGED self

(***************************************************************************)
(* DiscordNotifier (discord_notifier.py)                                   *)
(***************************************************************************)
DiscordConfigs ==
    {EmptyDict} \cup {[discord |-> s] : s \in DictsOver({"webhook_url"}, Settings)}

\* __init__: reads webhook_url (default ""), never raises
DiscordNotifier_init(config) ==
    LET section == Get(config, "discord", EmptyDict)
        webhook_url == Get(section, "webhook_url", Empty)
    IN  [obj |-> [cls |-> "DiscordNotifier", webhook_url |-> webhook_url],
         ret |-> Return(None)]

\* is_enabled: bool(webhook_url)
Discord_is_enabled(obj) == Truthy(obj.webhook_url)

\* answers of the webhook to a POST
DiscordStatuses == {200, 204, 429}
DiscordOutcomes == {NetworkError} \cup {Response(c, NotJson) : c \in DiscordStatuses}

\* result.get(sink) as a condition
SinkFlag(result, sink) == Truthy(Get(result, sink, None))

\* the entry of the result map for a release: results.get(str(tmdb_id), {})
ReleaseResult(release, results) ==
    Get(results, PyStrOf(Get(release, "tmdb_id", Empty)), EmptyDict)

\* the test of the loop: at least one of the two sink flags is truthy
Notifiable(release, results) ==
    LET release_result == ReleaseResult(release, results)
    IN  ~(~SinkFlag(release_result, "overseerr") /\ ~SinkFlag(release_result, "riven"))

\* _send_release_notification builds the embed before it posts: len(overview)
\* and the format {vote_average:.1f} raise TypeError on None
EmbedRaises(release) ==
    \/ Get(release, "overview", PyStr(<<"-">>)).t # "str"
    \/ Get(release, "vote_average", PyInt(0)).t \notin {"int", "float"}

\* "Added to": the sinks whose flag is truthy, Overseerr first
AddedTo(result) ==
    (IF SinkFlag(result, "overseerr") THEN <<"Overseerr">> ELSE <<>>)
    \o (IF SinkFlag(result, "riven") THEN <<"Riven">> ELSE <<>>)

\* _send_release_notification, once the embed is built: TRUE iff the POST
\* answers 200 or 204; a network failure is caught and gives FALSE
_send_release_notification(post) ==
    IF post.kind = "raise" THEN FALSE ELSE post.status_code \in {200, 204}

\* the loop of send_release_notifications over releases, posts being the
\* webhook's answers to the POSTs still to come: [sent_count, http, sleeps]
RECURSIVE NotifyLoop(_, _, _, _)
NotifyLoop(obj, releases, results, posts) ==
    IF releases = <<>> THEN [sent_count |-> 0, http |-> <<>>, sleeps |-> 0]
    ELSE LET release == Head(releases) IN
         IF ~Notifiable(release, results) \/ EmbedRaises(release)
         THEN NotifyLoop(obj, Tail(releases), results, posts)
         ELSE LET rest == NotifyLoop(obj, Tail(releases), results, Tail(posts))
                  payload == [tmdb_id |-> Get(release, "tmdb_id", Empty),
                              added_to |-> AddedTo(ReleaseResult(release, results))]
              IN  [sent_count |-> rest.sent_count
                                  + (IF _send_release_notification(Head(posts)) THEN 1 ELSE 0),
                   http |-> <<HttpPost(obj.webhook_url, <<>>, payload)>> \o rest.http,
                   sleeps |-> rest.sleeps + 1]

\* send_release_notifications: 0 and no request when the sink is not enabled
send_release_notifications(obj, releases, results, posts) ==
    IF ~Discord_is_enabled(obj)
    THEN [ret |-> Return(0), http |-> <<>>]
    ELSE LET r == NotifyLoop(obj, releases, results, posts)
         IN  [ret |-> Return(r.sent_count), http |-> r.http]

\* number of POSTs the loop issues: the notifiable releases whose embed builds
RECURSIVE NumPosts(_, _)
NumPosts(releases, results) ==
    IF releases = <<>> THEN 0
    ELSE (IF Notifiable(Head(releases), results) /\ ~EmbedRaises(Head(releases))
          THEN 1 ELSE 0) + NumPosts(Tail(releases), results)

\* releases handed to the notifier: as the catalog client builds them, overview
\* and vote_average being None when the catalog's record lacks them
DiscordIds == {None, PyInt(1), PyInt(2)}
DiscordReleases ==
    {[tmdb_id |-> id, overview |-> sh[1], vote_average |-> sh[2]] :
        id \in DiscordIds,
        sh \in {<<PyStr(<<"t">>), PyInt(7)>>, <<None, PyInt(7)>>, <<PyStr(<<"t">>), None>>}}

\* result maps: per stringified id, no entry or the flags of the two sinks
SinkFlags ==
    {EmptyDict, [overseerr |-> PyBool(TRUE)],
     [overseerr |-> PyBool(FALSE), riven |-> PyBool(TRUE)],
     [overseerr |-> PyBool(FALSE), riven |-> PyBool(FALSE)]}
ResultMaps == DictsOver({PyStrOf(PyInt(1)), PyStrOf(PyInt(2))}, SinkFlags)

NewDiscordNotifier ==
    /\ op = "start"
    /\ \E config \in DiscordConfigs :
          LET r == DiscordNotifier_init(config) IN
          /\ self' = r.obj
          /\ op' = "DiscordNotifier.__init__"
          /\ arg' = config
          /\ ret' = r.ret
          /\ UNCHANGED <<env, http>>

CallSendReleaseNotifications ==
    /\ op = "DiscordNotifier.__init__"
    /\ self.cls = "DiscordNotifier"
    /\ \E releases \in SeqsUpTo(DiscordReleases, MaxReleases), results \in ResultMaps :
       \E posts \in [1..NumPosts(releases, results) -> DiscordOutcomes] :
          LET r == send_release_notifications(self, releases, results, posts) IN
          /\ op' = "send_release_notifications"
          /\ arg' = [releases |-> releases, results |-> results]
          /\ env' = [posts |-> posts]
          /\ ret' = r.ret
          /\ http' = r.http
          /\ UNCHANGED self

(***************************************************************************)
(* ReleaseChecker (release_checker.py)                                     *)
(***************************************************************************)
RELEASE_TYPE_THEATRICAL == 3
RELEASE_TYPE_DIGITAL == 4

\* s[:n] of a str value
Prefix(s, n) == PyStr(SubSeq(s.v, 1, IF Len(s.v) < n THEN Len(s.v) ELSE n))

\* a or b
PyOr(a, b) == IF Truthy(a) THEN a ELSE b

\* the date keeps whatever digital entry comes last (no "not digital_date")
DateAfter_last_wins(digital_date, release) ==
    LET release_date == Get(release, "release_date", Empty) IN
    IF Truthy(release_date) THEN Prefix(release_date, 10) ELSE digital_date

\* lines 138-140: the first non-empty release_date is kept, cut to YYYY-MM-DD
DateAfter(digital_date, release) ==
    LET release_date == Get(release, "release_date", Empty) IN
    IF Truthy(release_date) /\ ~Truthy(digital_date)
    THEN Prefix(release_date, 10)
    ELSE digital_date

\* the certification of US is treated like any other (first seen wins)
CertAfter_first_wins(certification, country, release) ==
    LET cert == Get(release, "certification", Empty) IN
    IF Truthy(cert) /\ ~Truthy(certification) THEN cert ELSE certification

\* lines 142-148: a US certification always overwrites, another one only
\* fills an empty slot
CertAfter(certification, country, release) ==
    LET cert == Get(release, "certification", Empty) IN
    IF Truthy(cert)
    THEN IF country = "US" THEN cert
         ELSE IF ~Truthy(certification) THEN cert
         ELSE certification
    ELSE certification

\* the inner loop over the entries of one country, from state st =
\* <<digital_date, certification>>
RECURSIVE ScanCountry(_, _, _)
ScanCountry(st, country, entries) ==
    IF entries = <<>> THEN st
    ELSE LET release == Head(entries) IN
         ScanCountry(
            IF Get(release, "type", None) = PyInt(RELEASE_TYPE_DIGITAL)
            THEN <<DateAfter(st[1], release), CertAfter(st[2], country, release)>>
            ELSE st,
            country, Tail(entries))

\* the outer loop over the countries
RECURSIVE ScanCountries(_, _)
ScanCountries(st, release_dates) ==
    IF release_dates = <<>> THEN st
    ELSE LET country_releases == Head(release_dates)
             country == Get(country_releases, "iso_3166_1", "")
         IN  ScanCountries(
                ScanCountry(st, country, Get(country_releases, "release_dates", <<>>)),
                Tail(release_dates))

\* _find_digital_release_info: <<digital_date, certification>>, or a raised
\* exception when release_dates is null
_find_digital_release_info(movie) ==
    LET rd == Get(movie, "release_dates", PyDict(EmptyDict)) IN
    IF rd.t # "dict" THEN Raise("AttributeError")
    ELSE Return(ScanCountries(<<None, None>>, Get(rd.v, "results", <<>>)))

\* [g.get("name") for g in movie.get("genres", [])]: raises when genres is null
GenreNames(movie) ==
    LET genres == Get(movie, "genres", PyList(<<>>)) IN
    IF genres.t # "list" THEN Raise("TypeError")
    ELSE Return(PyList([i \in DOMAIN genres.v |-> Get(genres.v[i], "name", None)]))

\* the Release built from a decoded detail record
ReleaseOf(movie) ==
    LET info == _find_digital_release_info(movie)
        genres == GenreNames(movie)
    IN  IF info.kind = "raise" THEN info
        ELSE IF genres.kind = "raise" THEN genres
        ELSE Return(
            [type |-> "movie",
             tmdb_id |-> Get(movie, "id", None),
             title |-> Get(movie, "title", None),
             release_date |-> PyOr(info.v[1], Get(movie, "release_date", None)),
             overview |-> Get(movie, "overview", None),
             imdb_id |-> Get(movie, "imdb_id", None),
             vote_average |-> Get(movie, "vote_average", None),
             popularity |-> Get(movie, "popularity", None),
             adult |-> Get(movie, "adult", PyBool(FALSE)),
             poster_path |-> Get(movie, "poster_path", None),
             original_language |-> Get(movie, "original_language", Empty),
             genres |-> genres.v,
             certification |-> info.v[2]])

\* raise_for_status() raises HTTPError for a 4xx / 5xx status
RaisesForStatus(response) == response.status_code >= 400

\* _get_movie_with_release_dates: the Release, or None when the request, the
\* status, the decoding or the extraction raises (every exception is caught)
_get_movie_with_release_dates(detail) ==
    IF detail.kind = "raise" THEN None
    ELSE IF RaisesForStatus(detail) THEN None
    ELSE IF detail.json.t # "dict" THEN None
    ELSE LET r == ReleaseOf(detail.json.v) IN
         IF r.kind = "raise" THEN None ELSE PyDict(r.v)

\* the rest of the loop body of _fetch_digital_releases: a candidate whose
\* details are None is skipped
AppendIfDetails(movies, movie_details) ==
    IF Truthy(movie_details) THEN Append(movies, movie_details) ELSE movies

\* the loop gives up at the first candidate without details
RECURSIVE FetchLoop_stop_at_failure(_, _, _, _)
FetchLoop_stop_at_failure(obj, candidates, details, acc) ==
    IF candidates = <<>> THEN [raised |-> FALSE, movies |-> acc.movies, http |-> acc.http]
    ELSE LET movie == Head(candidates) IN
         IF movie.t # "dict"
         THEN [raised |-> TRUE, movies |-> acc.movies, http |-> acc.http]
         ELSE LET movie_id == Get(movie.v, "id", None)
                  movie_details == _get_movie_with_release_dates(Head(details))
                  sent == Append(acc.http, HttpGet("tmdb", <<"movie", movie_id>>))
              IN  IF ~Truthy(movie_details)
                  THEN [raised |-> FALSE, movies |-> acc.movies, http |-> sent]
                  ELSE FetchLoop_stop_at_failure(obj, Tail(candidates), Tail(details),
                          [movies |-> Append(acc.movies, movie_details), http |-> sent])

\* the loop of _fetch_digital_releases over data["results"], details being
\* the catalog's answers to the detail requests of the candidates, in order.
\* movie.get on a result that is no object raises (AttributeError), which
\* ends the loop and leaves _fetch_digital_releases.
RECURSIVE FetchLoop(_, _, _, _)
FetchLoop(obj, candidates, details, acc) ==
    IF candidates = <<>> THEN [raised |-> FALSE, movies |-> acc.movies, http |-> acc.http]
    ELSE LET movie == Head(candidates) IN
         IF movie.t # "dict"
         THEN [raised |-> TRUE, movies |-> acc.movies, http |-> acc.http]
         ELSE LET movie_id == Get(movie.v, "id", None)
                  movie_details == _get_movie_with_release_dates(Head(details))
              IN  FetchLoop(obj, Tail(candidates), Tail(details),
                     [movies |-> AppendIfDetails(acc.movies, movie_details),
                      http |-> Append(acc.http, HttpGet("tmdb", <<"movie", movie_id>>))])

\* _fetch_digital_releases: the movies, or the exception that leaves it.  A
\* RequestException (network failure, HTTP error status, and json()'s
\* JSONDecodeError in current requests) is caught and gives the movies
\* collected so far; any other exception propagates.
_fetch_digital_releases(obj, discover, details) ==
    LET sent == <<HttpGet("tmdb", <<"discover", "movie">>)>> IN
    IF discover.kind = "raise" THEN [ret |-> Return(<<>>), http |-> sent]
    ELSE IF RaisesForStatus(discover) THEN [ret |-> Return(<<>>), http |-> sent]
    ELSE IF discover.json.t = "notjson"
    THEN [ret |-> IF "exc" \in DOMAIN discover.json
                  THEN Raise(discover.json.exc) ELSE Return(<<>>),
          http |-> sent]
    ELSE IF discover.json.t # "dict" THEN [ret |-> Raise("AttributeError"), http |-> sent]
    ELSE LET results == Get(discover.json.v, "results", PyList(<<>>)) IN
         IF results.t # "list" THEN [ret |-> Raise("TypeError"), http |-> sent]
         ELSE LET r == FetchLoop(obj, results.v, details, [movies |-> <<>>, http |-> sent])
              IN  [ret |-> IF r.raised THEN Raise("AttributeError") ELSE Return(r.movies),
                   http |-> r.http]

\* get_today_releases: [] without an API key; otherwise what
\* _fetch_digital_releases returns, or [] when it raises
get_today_releases(obj, discover, details) ==
    IF ~Truthy(obj.tmdb_api_key) THEN [ret |-> Return(<<>>), http |-> <<>>]
    ELSE LET r == _fetch_digital_releases(obj, discover, details) IN
         [ret |-> IF r.ret.kind = "raise" THEN Return(<<>>) ELSE r.ret, http |-> r.http]

\* __init__: reads tmdb.api_key (default None), never raises
ReleaseChecker_init(config) ==
    [obj |-> [cls |-> "ReleaseChecker",
              tmdb_api_key |-> Get(Get(config, "tmdb", EmptyDict), "api_key", None)],
     ret |-> Return(None)]

CheckerConfigs == {EmptyDict} \cup {[tmdb |-> s] : s \in DictsOver({"api_key"}, Settings)}

\* release dates as the catalog writes them: a day, followed by a time
Day1 == <<"2", "0", "2", "4", "-", "0", "1", "-", "1", "5">>
Day2 == <<"2", "0", "2", "4", "-", "0", "2", "-", "2", "0">>
Day3 == <<"2", "0", "2", "3", "-", "1", "2", "-", "0", "1">>
Days == {Day1, Day2, Day3}
Stamp(day) == day \o <<"T", "0", "0", ":", "0", "0", ":", "0", "0", ".", "0", "0", "0", "Z">>

CertR == PyStr(<<"R">>)
Cert12 == PyStr(<<"1", "2">>)
CertPG == PyStr(<<"P", "G">>)

\* one entry of a country's release_dates: a theatrical one with date and
\* certification, or a digital one with each of the two empty or set
ReleaseEntries ==
    {[type |-> PyInt(RELEASE_TYPE_THEATRICAL), release_date |-> PyStr(Stamp(Day3)),
      certification |-> CertPG]}
    \cup {[type |-> PyInt(RELEASE_TYPE_DIGITAL), release_date |-> d, certification |-> c] :
            d \in {Empty, PyStr(Stamp(Day1)), PyStr(Stamp(Day2))},
            c \in {Empty, CertR, Cert12}}

Countries == {"US", "FR"}

\* the catalog's release_dates.results for a run of (country, entry) pairs:
\* one record per run of consecutive entries of the same country
RECURSIVE ByCountry(_)
ByCountry(flat) ==
    IF flat = <<>> THEN <<>>
    ELSE LET h == Head(flat)
             rest == ByCountry(Tail(flat))
         IN  IF rest # <<>> /\ rest[1].iso_3166_1 = h[1]
             THEN <<[iso_3166_1 |-> h[1],
                     release_dates |-> <<h[2]>> \o rest[1].release_dates]>> \o Tail(rest)
             ELSE <<[iso_3166_1 |-> h[1], release_dates |-> <<h[2]>>]>> \o rest

ReleaseDateResults == {ByCountry(flat) : flat \in SeqsUpTo(Countries \X ReleaseEntries, MaxEntries)}

\* detail records: every release_dates structure, with and without the
\* generic release_date; and records with a null release_dates or genres, or
\* with the optional fields given
GenreList == PyList(<<[id |-> PyInt(27), name |-> PyStr(<<"H">>)], [id |-> PyInt(18)]>>)
DetailMovies ==
    {[id |-> PyInt(1), release_dates |-> PyDict([results |-> rs])] : rs \in ReleaseDateResults}
    \cup {[id |-> PyInt(1), release_date |-> PyStr(Day3),
           release_dates |-> PyDict([results |-> rs])] : rs \in ReleaseDateResults}
    \cup {[id |-> PyInt(1)],
          [id |-> PyInt(1), release_dates |-> None],
          [id |-> PyInt(1), genres |-> None],
          [id |-> PyInt(1), release_date |-> PyStr(Day3), vote_average |-> PyInt(7),
           popularity |-> PyInt(3), adult |-> PyBool(TRUE),
           original_language |-> PyStr(<<"e", "n">>), genres |-> GenreList],
          [id |-> PyInt(1), vote_average |-> None, popularity |-> None]}

\* answers of the catalog to GET /movie/{id}
DetailOutcomes ==
    {NetworkError, Response(404, NotJson), Response(200, NotJson),
     Response(200, NotJsonValueError)}
    \cup {Response(200, PyDict(m)) : m \in DetailMovies}

\* the answers to the detail request of a discovered candidate: failures, a
\* record that cannot be processed, or the record of that candidate
CandidateDetails(movie) ==
    {NetworkError, Response(404, NotJson), Response(200, NotJson),
     Response(200, PyDict([id |-> PyInt(0), release_dates |-> None]))}
    \cup (IF movie.t = "dict"
          THEN {Response(200, PyDict([id |-> Get(movie.v, "id", None)]))}
          ELSE {})

\* results of a discovery answer: candidates with an id, or an entry that is
\* no object
Candidates == {PyDict([id |-> PyInt(i)]) : i \in 1..MaxId} \cup {None}

\* answers of the catalog to GET /discover/movie
DiscoverOutcomes ==
    {NetworkError, Response(500, NotJson), Response(200, NotJson),
     Response(200, NotJsonValueError), Response(200, PyDict(EmptyDict)),
     Response(200, PyList(<<>>)), Response(200, PyDict([results |-> None]))}
    \cup {Response(200, PyDict([results |-> PyList(c)])) :
             c \in SeqsUpTo(Candidates, MaxCandidates)}

\* the candidates of a discovery answer, <<>> when it carries none
CandidatesOf(discover) ==
    IF /\ discover.kind = "response"
       /\ discover.json.t = "dict"
       /\ "results" \in DOMAIN discover.json.v
       /\ discover.json.v.results.t = "list"
    THEN discover.json.v.results.v
    ELSE <<>>

\* one answer to the detail request of each candidate
DetailsFor(candidates) ==
    {d \in [DOMAIN candidates -> UNION {CandidateDetails(candidates[i]) : i \in DOMAIN candidates}] :
        \A i \in DOMAIN candidates : d[i] \in CandidateDetails(candidates[i])}

NewReleaseChecker ==
    /\ op = "start"
    /\ \E config \in CheckerConfigs :
          LET r == ReleaseChecker_init(config) IN
          /\ self' = r.obj
          /\ op' = "ReleaseChecker.__init__"
          /\ arg' = config
          /\ ret' = r.ret
          /\ UNCHANGED <<env, http>>

\* _get_movie_with_release_dates is reached from get_today_releases only,
\* hence with an API key
CallGetMovie ==
    /\ op = "ReleaseChecker.__init__"
    /\ self.cls = "ReleaseChecker"
    /\ Truthy(self.tmdb_api_key)
    /\ \E detail \in DetailOutcomes :
          /\ op' = "_get_movie_with_release_dates"
          /\ arg' = PyInt(1)
          /\ env' = [detail |-> detail]
          /\ ret' = Return(_get_movie_with_release_dates(detail))
          /\ http' = <<HttpGet("tmdb", <<"movie", PyInt(1)>>)>>
          /\ UNCHANGED self

CallGetTodayReleases ==
    /\ op = "ReleaseChecker.__init__"
    /\ self.cls = "ReleaseChecker"
    /\ \E discover \in DiscoverOutcomes :
       \E details \in DetailsFor(CandidatesOf(discover)) :
          LET r == get_today_releases(self, discover, details) IN
          /\ op' = "get_today_releases"
          /\ arg' = None
          /\ env' = [discover |-> discover, details |-> details]
          /\ ret' = r.ret
          /\ http' = r.http
          /\ UNCHANGED self

(***************************************************************************)
(* FilterEngine (filters.py)                                               *)
(*                                                                         *)
(* Scores (vote_average, min_tmdb_rating) are counted in tenths: 75 is 7.5. *)
(* A stage returns the list it built, or raises; releases is the argument   *)
(* list as the stage leaves it.                                            *)
(***************************************************************************)
PyNum(n) == [t |-> "float", v |-> n]

Uppers == <<"A", "B", "C", "D", "E", "F", "G", "H", "I", "J", "K", "L", "M",
            "N", "O", "P", "Q", "R", "S", "T", "U", "V", "W", "X", "Y", "Z">>
Lowers == <<"a", "b", "c", "d", "e", "f", "g", "h", "i", "j", "k", "l", "m",
            "n", "o", "p", "q", "r", "s", "t", "u", "v", "w", "x", "y", "z">>

\* one character of str.lower() / str.upper()
LowerChar(c) ==
    IF \E i \in DOMAIN Uppers : Uppers[i] = c
    THEN Lowers[CHOOSE i \in DOMAIN Uppers : Uppers[i] = c]
    ELSE c
UpperChar(c) ==
    IF \E i \in DOMAIN Lowers : Lowers[i] = c
    THEN Uppers[CHOOSE i \in DOMAIN Lowers : Lowers[i] = c]
    ELSE c

\* s.lower() / s.upper() of a str value
Lower(s) == PyStr([i \in DOMAIN s.v |-> LowerChar(s.v[i])])
Upper(s) == PyStr([i \in DOMAIN s.v |-> UpperChar(s.v[i])])

\* x in l, for a list l given as a sequence
InList(x, l) == \E i \in DOMAIN l : l[i] = x

\* a number (int or float; bool is an int in Python)
IsNumber(x) == x.t \in {"int", "float", "bool"}
NumberOf(x) == IF x.t = "bool" THEN (IF x.v THEN 1 ELSE 0) ELSE x.v

\* __init__: filters = config.get("filters", {})
FilterEngine_init(config) ==
    [obj |-> [cls |-> "FilterEngine", filters |-> Get(config, "filters", EmptyDict)],
     ret |-> Return(None)]

\* the list a stage returns: the kept releases, in input order
Pick(releases, keep) ==
    LET pairs == SelectSeq([i \in DOMAIN releases |-> <<i, releases[i]>>],
                           LAMBDA p : p[1] \in keep)
    IN  [i \in DOMAIN pairs |-> pairs[i][2]]

\* a release without the adult key counts as adult
_filter_adult_default_true(obj, releases) ==
    [ret |-> Return(Pick(releases,
                {i \in DOMAIN releases : ~Truthy(Get(releases[i], "adult", PyBool(TRUE)))})),
     releases |-> releases]

\* _filter_adult: [r for r in releases if not r.get("adult", False)]
_filter_adult(obj, releases) ==
    [ret |-> Return(Pick(releases,
                {i \in DOMAIN releases : ~Truthy(Get(releases[i], "adult", PyBool(FALSE)))})),
     releases |-> releases]

\* the comparison is strict: a release whose score equals min_rating is dropped
_filter_by_tmdb_rating_strict(obj, releases) ==
    LET min_rating == Get(obj.filters, "min_tmdb_rating", PyNum(0))
        vote(i) == Get(releases[i], "vote_average", PyNum(0))
    IN  IF \E i \in DOMAIN releases : ~IsNumber(vote(i)) \/ ~IsNumber(min_rating)
        THEN [ret |-> Raise("TypeError"), releases |-> releases]
        ELSE [ret |-> Return(Pick(releases,
                        {i \in DOMAIN releases : NumberOf(vote(i)) > NumberOf(min_rating)})),
              releases |-> releases]

\* _filter_by_tmdb_rating: keeps vote_average >= min_rating; the comparison
\* raises TypeError when vote_average is None
_filter_by_tmdb_rating(obj, releases) ==
    LET min_rating == Get(obj.filters, "min_tmdb_rating", PyNum(0))
        vote(i) == Get(releases[i], "vote_average", PyNum(0))
    IN  IF \E i \in DOMAIN releases : ~IsNumber(vote(i)) \/ ~IsNumber(min_rating)
        THEN [ret |-> Raise("TypeError"), releases |-> releases]
        ELSE [ret |-> Return(Pick(releases,
                        {i \in DOMAIN releases : NumberOf(vote(i)) >= NumberOf(min_rating)})),
              releases |-> releases]

\* a release without a language passes whatever the allow-list holds
_filter_by_allowed_languages_admit_empty(obj, releases, allowed_langs) ==
    [ret |-> Return(Pick(releases,
                {i \in DOMAIN releases :
                    LET lang == Get(releases[i], "original_language", Empty) IN
                    ~Truthy(lang) \/ InList(lang, allowed_langs.v)})),
     releases |-> releases]

\* _filter_by_allowed_languages: keeps original_language in allowed_langs
_filter_by_allowed_languages(obj, releases, allowed_langs) ==
    [ret |-> Return(Pick(releases,
                {i \in DOMAIN releases :
                    InList(Get(releases[i], "original_language", Empty), allowed_langs.v)})),
     releases |-> releases]

\* g.lower() raises AttributeError on a genre name that is None
GenresRaise(release) ==
    LET genres == Get(release, "genres", PyList(<<>>)) IN
    \/ genres.t # "list"
    \/ \E j \in DOMAIN genres.v : genres.v[j].t # "str"

\* the names are compared as they are written, without lowercasing
HasExcludedGenre_exact(release, excluded_genres) ==
    LET genres == Get(release, "genres", PyList(<<>>)) IN
    \E j \in DOMAIN genres.v :
        \E k \in DOMAIN excluded_genres.v : genres.v[j] = excluded_genres.v[k]

\* any(g in excluded_lower for g in genres_lower)
HasExcludedGenre(release, excluded_genres) ==
    LET genres == Get(release, "genres", PyList(<<>>)) IN
    \E j \in DOMAIN genres.v :
        \E k \in DOMAIN excluded_genres.v :
            Lower(genres.v[j]) = Lower(excluded_genres.v[k])

\* _filter_by_excluded_genres: drops a release one of whose genre names,
\* lowercased, is in the lowercased deny-list
_filter_by_excluded_genres(obj, releases, excluded_genres) ==
    IF \E i \in DOMAIN releases : GenresRaise(releases[i])
    THEN [ret |-> Raise("AttributeError"), releases |-> releases]
    ELSE [ret |-> Return(Pick(releases,
                    {i \in DOMAIN releases : ~HasExcludedGenre(releases[i], excluded_genres)})),
          releases |-> releases]

\* the certification is compared as it is written, without uppercasing
HasExcludedCert_exact(release, excluded_certs) ==
    LET cert == Get(release, "certification", Empty) IN
    /\ Truthy(cert)
    /\ \E k \in DOMAIN excluded_certs.v : cert = excluded_certs.v[k]

\* cert and cert.upper() in excluded_upper
HasExcludedCert(release, excluded_certs) ==
    LET cert == Get(release, "certification", Empty) IN
    /\ Truthy(cert)
    /\ \E k \in DOMAIN excluded_certs.v : Upper(cert) = Upper(excluded_certs.v[k])

\* the kept releases are inserted at the front of the result
_filter_by_excluded_certifications_prepend(obj, releases, excluded_certs) ==
    LET kept == Pick(releases,
                    {i \in DOMAIN releases : ~HasExcludedCert(releases[i], excluded_certs)})
    IN  [ret |-> Return([i \in DOMAIN kept |-> kept[Len(kept) + 1 - i]]),
         releases |-> releases]

\* _filter_by_excluded_certifications: drops a release whose certification is
\* non-empty and, uppercased, is in the uppercased deny-list
_filter_by_excluded_certifications(obj, releases, excluded_certs) ==
    [ret |-> Return(Pick(releases,
                {i \in DOMAIN releases : ~HasExcludedCert(releases[i], excluded_certs)})),
     releases |-> releases]

\* one step of apply_filters: the stage runs on the list filtered so far when
\* its setting enables it and no earlier stage raised
Stage(enabled, prev, next) == IF prev.ret.kind = "raise" \/ ~enabled THEN prev ELSE next

\* apply_filters: the five stages in their fixed order
apply_filters(obj, releases) ==
    LET f == obj.filters
        s0 == [ret |-> Return(releases), releases |-> releases]
        s1 == Stage(Truthy(Get(f, "exclude_adult", None)), s0, _filter_adult(obj, s0.ret.v))
        min_rating == Get(f, "min_tmdb_rating", PyNum(0))
        s2 == IF s1.ret.kind = "raise" THEN s1
              ELSE IF ~IsNumber(min_rating) THEN [ret |-> Raise("TypeError"), releases |-> releases]
              ELSE Stage(NumberOf(min_rating) > 0, s1, _filter_by_tmdb_rating(obj, s1.ret.v))
        allowed_langs == Get(f, "allowed_languages", PyList(<<>>))
        s3 == Stage(Truthy(allowed_langs), s2,
                    _filter_by_allowed_languages(obj, s2.ret.v, allowed_langs))
        excluded_genres == Get(f, "excluded_genres", PyList(<<>>))
        s4 == Stage(Truthy(excluded_genres), s3,
                    _filter_by_excluded_genres(obj, s3.ret.v, excluded_genres))
        excluded_certs == Get(f, "excluded_certifications", PyList(<<>>))
        s5 == Stage(Truthy(excluded_certs), s4,
                    _filter_by_excluded_certifications(obj, s4.ret.v, excluded_certs))
    IN  [ret |-> s5.ret, releases |-> releases]

\* strings of the filter inputs
LangEn == PyStr(<<"e", "n">>)
LangFr == PyStr(<<"f", "r">>)
GenreDrama == PyStr(<<"D", "r", "a", "m", "a">>)
GenreHorror == PyStr(<<"H", "o", "r", "r", "o", "r">>)
GenreHorrorLower == PyStr(<<"h", "o", "r", "r", "o", "r">>)
GenreHorrorUpper == PyStr(<<"H", "O", "R", "R", "O", "R">>)
CertRLower == PyStr(<<"r">>)

\* a Release as the catalog client builds it (every key present)
Release(id, adult, vote_average, original_language, genres, certification) ==
    [type |-> "movie", tmdb_id |-> PyInt(id), title |-> PyStr(<<"t">>),
     release_date |-> PyStr(Day1), overview |-> None, imdb_id |-> None,
     vote_average |-> vote_average, popularity |-> PyNum(10), adult |-> PyBool(adult),
     poster_path |-> None, original_language |-> original_language,
     genres |-> PyList(genres), certification |-> certification]

\* releases handed to the filters: releases of the catalog client, among them
\* one whose record lacked score, language and certification and one with a
\* genre without a name, and dicts with few keys as the tests build them
FilterReleases ==
    {Release(1, FALSE, PyNum(75), LangEn, <<GenreDrama>>, CertPG),
     Release(2, TRUE, PyNum(60), LangEn, <<GenreHorror>>, CertR),
     Release(3, FALSE, PyNum(70), LangFr, <<GenreDrama, GenreHorrorLower>>, CertRLower),
     Release(4, FALSE, None, Empty, <<>>, None),
     Release(5, FALSE, PyNum(80), LangEn, <<None>>, Empty),
     [tmdb_id |-> PyInt(6), title |-> PyStr(<<"t">>)],
     [tmdb_id |-> PyInt(7), title |-> PyStr(<<"t">>), adult |-> PyBool(TRUE),
      vote_average |-> PyNum(50)]}

\* a setting of the filters section: absent, or one of the values
Setting(key, values) == {EmptyDict} \cup {[k \in {key} |-> v] : v \in values}

\* the filters section: every setting absent, off / zero / empty, or set
FilterSections ==
    {a @@ b @@ c @@ d @@ e :
        a \in Setting("exclude_adult", {PyBool(TRUE), PyBool(FALSE)}),
        b \in Setting("min_tmdb_rating", {PyNum(0), PyNum(70), PyNum(80)}),
        c \in Setting("allowed_languages", {PyList(<<>>), PyList(<<LangEn>>)}),
        d \in Setting("excluded_genres", {PyList(<<GenreHorrorUpper>>)}),
        e \in Setting("excluded_certifications", {PyList(<<CertRLower>>)})}

FilterConfigs == {EmptyDict} \cup {[filters |-> f] : f \in FilterSections}

\* the stages, as apply_filters or a test calls them one by one
StageNames == {"_filter_adult", "_filter_by_tmdb_rating", "_filter_by_allowed_languages",
               "_filter_by_excluded_genres", "_filter_by_excluded_certifications"}

RunStage(name, obj, releases) ==
    CASE name = "_filter_adult" -> _filter_adult(obj, releases)
      [] name = "_filter_by_tmdb_rating" -> _filter_by_tmdb_rating(obj, releases)
      [] name = "_filter_by_allowed_languages" ->
            _filter_by_allowed_languages(obj, releases, PyList(<<LangEn>>))
      [] name = "_filter_by_excluded_genres" ->
            _filter_by_excluded_genres(obj, releases, PyList(<<GenreHorrorUpper>>))
      [] name = "_filter_by_excluded_certifications" ->
            _filter_by_excluded_certifications(obj, releases, PyList(<<CertRLower>>))

NewFilterEngine ==
    /\ op = "start"
    /\ \E config \in FilterConfigs :
          LET r == FilterEngine_init(config) IN
          /\ self' = r.obj
          /\ op' = "FilterEngine.__init__"
          /\ arg' = config
          /\ ret' = r.ret
          /\ UNCHANGED <<env, http>>

CallApplyFilters ==
    /\ op = "FilterEngine.__init__"
    /\ self.cls = "FilterEngine"
    /\ \E releases \in SeqsUpTo(FilterReleases, MaxReleases) :
          LET r == apply_filters(self, releases) IN
          /\ op' = "apply_filters"
          /\ arg' = releases
          /\ env' = [releases |-> r.releases]
          /\ ret' = r.ret
          /\ UNCHANGED <<self, http>>

\* a single stage, called on its own; the rating stage reads its threshold
\* from the configuration, the deny- and allow-lists are arguments
CallFilterStage ==
    /\ op = "FilterEngine.__init__"
    /\ self.cls = "FilterEngine"
    /\ self.filters = EmptyDict \/ DOMAIN self.filters = {"min_tmdb_rating"}
    /\ \E name \in StageNames, releases \in SeqsUpTo(FilterReleases, MaxReleases) :
          LET r == RunStage(name, self, releases) IN
          /\ op' = name
          /\ arg' = releases
          /\ env' = [releases |-> r.releases]
          /\ ret' = r.ret
          /\ UNCHANGED <<self, http>>

(***************************************************************************)
(* Specifications                                                          *)
(***************************************************************************)
Init ==
    /\ self = NoObject
    /\ op = "start"
    /\ arg = None
    /\ env = None
    /\ ret = None
    /\ http = <<>>

NextSinks ==
    \/ NewOverseerrRequester
    \/ CallRequestMedia
    \/ NewRivenRequester
    \/ CallAddMedia
    \/ NewDiscordNotifier
    \/ CallSendReleaseNotifications

SpecSinks == Init /\ [][NextSinks]_vars

NextCatalog ==
    \/ NewReleaseChecker
    \/ CallGetMovie
    \/ CallGetTodayReleases

SpecCatalog == Init /\ [][NextCatalog]_vars

NextFilters ==
    \/ NewFilterEngine
    \/ CallApplyFilters
    \/ CallFilterStage

SpecFilters == Init /\ [][NextFilters]_vars

(***************************************************************************)
(* Properties of the sinks                                                 *)
(***************************************************************************)
\* a setting that is present: a non-empty string
Present(x) == x.t = "str" /\ Len(x.v) > 0

\* positions of the requests of one method in http
Requests(method) == {i \in DOMAIN http : http[i].method = method}

\* the status check answered 200 with a numeric mediaInfo.status >= 2
CheckReportsExisting(check) ==
    /\ check.kind = "response"
    /\ check.status_code = 200
    /\ check.json.t = "dict"
    /\ "mediaInfo" \in DOMAIN check.json.v
    /\ check.json.v.mediaInfo.t = "dict"
    /\ "status" \in DOMAIN check.json.v.mediaInfo.v
    /\ check.json.v.mediaInfo.v.status.t = "int"
    /\ check.json.v.mediaInfo.v.status.v >= 2

\* the release carries a catalog id (neither absent, None nor 0)
HasCatalogId(release) ==
    /\ "tmdb_id" \in DOMAIN release
    /\ release.tmdb_id.t = "int"
    /\ release.tmdb_id.v # 0

\* C1: request_media always returns a boolean and never raises; for a release
\* with a catalog id whose status check did not short-circuit it returns true
\* exactly when the POST answers 200, 201 or 409, and false on every other
\* status and on a network-level failure.
C1_RequestMediaOutcome ==
    op = "request_media" =>
        /\ ret.kind = "return"
        /\ ret.v \in BOOLEAN
        /\ (HasCatalogId(arg) /\ ~CheckReportsExisting(env.check)) =>
              /\ Requests("POST") # {}
              /\ ret.v = (/\ env.post.kind = "response"
                          /\ env.post.status_code \in {200, 201, 409})

C1_Witness ==
    /\ op = "request_media"
    /\ HasCatalogId(arg)
    /\ ~CheckReportsExisting(env.check)
    /\ env.post.kind = "response"
    /\ env.post.status_code = 409
    /\ ret = Return(TRUE)

\* C2: in every request_media call the status-check GET precedes any POST and
\* at most one POST is issued; a release with a catalog id is always checked,
\* and the POST is issued iff a check was made and did not report an existing
\* status >= 2: a reported status >= 2 returns false without a POST, while a
\* non-200 answer, an absent status, a status of 1 or a failed check leads to
\* exactly one POST.
C2_CheckBeforePost ==
    op = "request_media" =>
        /\ \A p \in Requests("POST") : \E g \in Requests("GET") : g < p
        /\ Cardinality(Requests("POST")) <= 1
        /\ HasCatalogId(arg) => Cardinality(Requests("GET")) = 1
        /\ (Requests("POST") # {}) <=>
              (Requests("GET") # {} /\ ~CheckReportsExisting(env.check))
        /\ (Requests("GET") # {} /\ CheckReportsExisting(env.check)) =>
              ret = Return(FALSE)

C2_Witness ==
    /\ op = "request_media"
    /\ CheckReportsExisting(env.check)
    /\ Requests("GET") = {1}
    /\ Requests("POST") = {}
    /\ ret = Return(FALSE)

\* the sink is active: endpoint and credential both present
RivenActive == Present(self.api_key) /\ Present(self.api_url)

\* number of identifiers submitted by the call (those of the POST, if any)
Submitted == IF http = <<>> THEN 0 ELSE Len(http[1].json.tmdb_ids)

\* C3: for an active sink whose add_media submits n > 0 identifiers the
\* result is all-or-nothing over them: 200 gives success = n, failed = 0; a
\* 404, a 422, any other status or a network failure gives success = 0,
\* failed = n; in every outcome success + failed = n and one count is 0.
C3_AllOrNothing ==
    (op = "add_media" /\ RivenActive /\ Submitted > 0) =>
        LET n == Submitted
            ok == env.post.kind = "response" /\ env.post.status_code = 200
        IN  /\ ok => (ret.v.success = n /\ ret.v.failed = 0)
            /\ ~ok => (ret.v.success = 0 /\ ret.v.failed = n)
            /\ ret.v.success + ret.v.failed = n
            /\ (ret.v.success = 0 \/ ret.v.failed = 0)

\* C4: for a list of releases that each carry a catalog id, whatever their
\* media-type tag, an active add_media returns success = len(releases),
\* failed = 0 on a 200 answer and success = 0, failed = len(releases) on 404.
C4_EveryReleaseCounted ==
    (/\ op = "add_media"
     /\ RivenActive
     /\ \A i \in DOMAIN arg : HasCatalogId(arg[i])
     /\ env.post.kind = "response") =>
        /\ env.post.status_code = 200 =>
              (ret.v.success = Len(arg) /\ ret.v.failed = 0)
        /\ env.post.status_code = 404 =>
              (ret.v.success = 0 /\ ret.v.failed = Len(arg))

\* the movie releases of the batch that carry a catalog id
MoviesWithId == {i \in DOMAIN arg : arg[i].type = "movie" /\ HasCatalogId(arg[i])}

\* C5: the sink is enabled iff endpoint and credential are both non-empty;
\* an add_media call issues at most one POST: exactly one, carrying the
\* stringified id of every movie release that has one, when the sink is
\* active and such a release exists, and none otherwise; an inactive sink
\* returns success = 0, failed = 0.
C5_OnePostWhenActive ==
    /\ self.cls = "RivenRequester" => (Riven_is_enabled(self) <=> RivenActive)
    /\ op = "add_media" =>
          /\ Requests("GET") = {}
          /\ Cardinality(Requests("POST")) <= 1
          /\ (Requests("POST") # {}) <=> (RivenActive /\ MoviesWithId # {})
          /\ Requests("POST") # {} =>
                LET ids == http[1].json.tmdb_ids IN
                /\ Len(ids) = Cardinality(MoviesWithId)
                /\ \A i \in MoviesWithId :
                      \E j \in DOMAIN ids : ids[j] = PyStr(Digits(arg[i].tmdb_id.v))
          /\ ~RivenActive => (ret.v.success = 0 /\ ret.v.failed = 0)

C5_Witness ==
    /\ op = "add_media"
    /\ RivenActive
    /\ Cardinality(MoviesWithId) = 2
    /\ Len(http) = 1
    /\ Len(http[1].json.tmdb_ids) = 2

\* the credential a configuration gives a sink, "" when section or key is absent
Credential(config, section, key) == Get(Get(config, section, EmptyDict), key, Empty)

\* C6: with a missing or empty credential, constructing OverseerrRequester
\* raises ValueError, whereas constructing RivenRequester or DiscordNotifier
\* never raises and yields a disabled sink, whose add_media /
\* send_release_notifications issues no HTTP request.
C6_CredentialAsymmetry ==
    /\ (op = "OverseerrRequester.__init__"
        /\ ~Present(Credential(arg, "overseerr", "api_key"))) =>
          (ret = Raise("ValueError") /\ self = NoObject)
    /\ op = "RivenRequester.__init__" =>
          /\ ret.kind = "return"
          /\ self.api_key = Credential(arg, "riven", "api_key")
          /\ ~Present(self.api_key) => ~Riven_is_enabled(self)
    /\ op = "DiscordNotifier.__init__" =>
          /\ ret.kind = "return"
          /\ self.webhook_url = Credential(arg, "discord", "webhook_url")
          /\ ~Present(self.webhook_url) => ~Discord_is_enabled(self)
    /\ (op = "add_media" /\ ~Present(self.api_key)) =>
          (http = <<>> /\ ret.kind = "return")
    /\ (op = "send_release_notifications" /\ ~Present(self.webhook_url)) =>
          (http = <<>> /\ ret = Return(0))

C6_Witness ==
    /\ op = "send_release_notifications"
    /\ ~Present(self.webhook_url)
    /\ \E i \in DOMAIN arg.releases : Notifiable(arg.releases[i], arg.results)
    /\ http = <<>>

(***************************************************************************)
(* Properties of the catalog client                                        *)
(***************************************************************************)
\* the entries of release_dates.results in catalog order, each with its country
RECURSIVE EntriesInOrder(_)
EntriesInOrder(results) ==
    IF results = <<>> THEN <<>>
    ELSE [i \in 1..Len(Head(results).release_dates) |->
             [country |-> Head(results).iso_3166_1,
              entry |-> Head(results).release_dates[i]]]
         \o EntriesInOrder(Tail(results))

IsDigital(e) == e.entry.type = PyInt(4)

\* the digital entries of a detail record, in catalog order
DigitalInOrder(movie) ==
    IF "release_dates" \in DOMAIN movie /\ movie.release_dates.t = "dict"
    THEN SelectSeq(EntriesInOrder(movie.release_dates.v.results), IsDigital)
    ELSE <<>>

MinOf(S) == CHOOSE i \in S : \A j \in S : i <= j
MaxOf(S) == CHOOSE i \in S : \A j \in S : j <= i

\* a Release was built from the detail record
BuiltRelease == op = "_get_movie_with_release_dates" /\ ret.v.t = "dict"

\* C7: the certification of a Release considers digital entries only and is:
\* the non-empty certification of a US digital entry when there is one (the
\* last of them), wherever the US entry stands among the countries; otherwise
\* the first non-empty certification of a non-US digital entry in catalog
\* order; otherwise None.
C7_CertificationTieBreak ==
    BuiltRelease =>
        LET d == DigitalInOrder(env.detail.json.v)
            us == {i \in DOMAIN d : d[i].country = "US" /\ Present(d[i].entry.certification)}
            other == {i \in DOMAIN d : d[i].country # "US" /\ Present(d[i].entry.certification)}
            certification == ret.v.v.certification
        IN  IF us # {} THEN certification = d[MaxOf(us)].entry.certification
            ELSE IF other # {} THEN certification = d[MinOf(other)].entry.certification
            ELSE certification = None

\* [(FR,12),(US,R)] resolves to R
C7_Witness ==
    /\ BuiltRelease
    /\ LET d == DigitalInOrder(env.detail.json.v) IN
       /\ Len(d) = 2
       /\ d[1].country = "FR" /\ d[1].entry.certification = Cert12
       /\ d[2].country = "US" /\ d[2].entry.certification = CertR
    /\ ret.v.v.certification = CertR

\* C8: release_date of a Release is the day (YYYY-MM-DD) of the first digital
\* entry with a non-empty release date, in catalog order; later digital
\* entries and non-digital entries never contribute; without such an entry it
\* is the generic release_date of the detail record.
C8_ReleaseDateFirstSeen ==
    BuiltRelease =>
        LET movie == env.detail.json.v
            d == DigitalInOrder(movie)
            dated == {i \in DOMAIN d : Present(d[i].entry.release_date)}
            release_date == ret.v.v.release_date
        IN  IF dated # {}
            THEN \E day \in Days :
                    /\ d[MinOf(dated)].entry.release_date = PyStr(Stamp(day))
                    /\ release_date = PyStr(day)
            ELSE release_date = Get(movie, "release_date", None)

\* two dated digital entries with different days: the first one's day wins
C8_Witness ==
    /\ BuiltRelease
    /\ LET d == DigitalInOrder(env.detail.json.v) IN
       /\ Len(d) = 2
       /\ d[1].entry.release_date = PyStr(Stamp(Day2))
       /\ d[2].entry.release_date = PyStr(Stamp(Day1))
    /\ ret.v.v.release_date = PyStr(Day2)

\* the discovery call failed: network error, HTTP error status, or a body
\* that is no object with a list of objects under "results"
DiscoveryFailed(discover) ==
    \/ discover.kind = "raise"
    \/ discover.status_code >= 400
    \/ discover.json.t # "dict"
    \/ /\ "results" \in DOMAIN discover.json.v
       /\ \/ discover.json.v.results.t # "list"
          \/ \E i \in DOMAIN discover.json.v.results.v :
                discover.json.v.results.v[i].t # "dict"

\* the detail fetch of a candidate succeeded: a 2xx answer whose body is an
\* object with neither release_dates nor genres null
DetailSucceeded(detail) ==
    /\ detail.kind = "response"
    /\ detail.status_code < 400
    /\ detail.json.t = "dict"
    /\ Get(detail.json.v, "release_dates", PyDict(EmptyDict)) # None
    /\ Get(detail.json.v, "genres", PyList(<<>>)) # None

\* the k-th smallest element of a set of numbers
Nth(S, k) == CHOOSE i \in S : Cardinality({j \in S : j <= i}) = k

\* C9: get_today_releases never raises; it returns [] when no API key is
\* configured or the discovery call fails, and otherwise exactly one Release
\* per candidate whose detail fetch succeeded, in discovery order, failed
\* candidates being dropped without affecting the others.
C9_FailsSoft ==
    op = "get_today_releases" =>
        /\ ret.kind = "return"
        /\ (~Present(self.tmdb_api_key) \/ DiscoveryFailed(env.discover)) => ret.v = <<>>
        /\ (Present(self.tmdb_api_key) /\ ~DiscoveryFailed(env.discover)) =>
              LET cands == CandidatesOf(env.discover)
                  ok == {i \in DOMAIN cands : DetailSucceeded(env.details[i])}
              IN  /\ Len(ret.v) = Cardinality(ok)
                  /\ \A k \in DOMAIN ret.v :
                        /\ ret.v[k].t = "dict"
                        /\ ret.v[k].v.tmdb_id = cands[Nth(ok, k)].v.id

\* the first candidate's detail fetch fails, the second one's Release is returned
C9_Witness ==
    /\ op = "get_today_releases"
    /\ Len(CandidatesOf(env.discover)) = 2
    /\ ~DiscoveryFailed(env.discover)
    /\ ~DetailSucceeded(env.details[1])
    /\ DetailSucceeded(env.details[2])
    /\ Len(ret.v) = 1
    /\ ret.v[1].v.tmdb_id = CandidatesOf(env.discover)[2].v.id

(***************************************************************************)
(* Properties of the filter engine                                         *)
(***************************************************************************)
\* out is a subsequence of in: its elements are elements of in, taken at
\* increasing positions
IsSubsequence(out, in) ==
    \E f \in [DOMAIN out -> DOMAIN in] :
        /\ \A i \in DOMAIN out : out[i] = in[f[i]]
        /\ \A i, j \in DOMAIN out : i < j => f[i] < f[j]

FilterCall == op = "apply_filters" \/ op \in StageNames

\* C10: the output of apply_filters, and of each single stage, is an
\* order-preserving subsequence of the input (only releases of the input, none
\* more often than in the input, in the same relative order), and the input
\* list and its releases are left as they were.
C10_OrderPreservingSubsequence ==
    FilterCall =>
        /\ env.releases = arg
        /\ ret.kind = "return" => IsSubsequence(ret.v, arg)

\* two different releases both survive a stage that dropped nothing else
C10_Witness ==
    /\ op = "apply_filters"
    /\ Truthy(Get(self.filters, "excluded_certifications", PyList(<<>>)))
    /\ ret.kind = "return"
    /\ Len(arg) = 2
    /\ arg[1] # arg[2]
    /\ ret.v = arg

\* the keys of a Release as the catalog client builds it
ReleaseKeys ==
    {"type", "tmdb_id", "title", "release_date", "overview", "imdb_id", "vote_average",
     "popularity", "adult", "poster_path", "original_language", "genres", "certification"}

\* every release of the list has the shape the catalog client gives a Release
FromCatalog(releases) == \A i \in DOMAIN releases : DOMAIN releases[i] = ReleaseKeys

\* C11: apply_filters never raises, whatever the filter configuration, on a
\* list of Releases the catalog client can produce, among them Releases whose
\* vote_average, certification, original_language or genre names are None
\* because the catalog's record lacked them.
C11_NeverRaises ==
    (op = "apply_filters" /\ FromCatalog(arg)) => ret.kind = "return"

\* apply_filters returned its filtered list
Filtered == op = "apply_filters" /\ ret.kind = "return"

\* every setting of the filters section other than those of keys is absent or
\* off (false, zero, empty)
OthersOff(keys) == \A k \in DOMAIN self.filters \ keys : ~Truthy(self.filters[k])

\* the configured threshold, 0 when there is none
Threshold == Get(self.filters, "min_tmdb_rating", PyNum(0))

\* the score of a release (0 for a dict without the key) is a number >= t
ScoreAtLeast(r, t) ==
    LET score == Get(r, "vote_average", PyNum(0)) IN
    IsNumber(score) /\ NumberOf(score) >= NumberOf(t)

\* C12: with min_tmdb_rating = t > 0 a release is kept iff its vote_average
\* is >= t (a score equal to t is kept, one below is dropped): no release
\* below t is in the output of apply_filters, the output is exactly the
\* releases with a score >= t when no other filter is on, and so is the
\* output of the rating stage alone; with min_tmdb_rating absent or 0 (and no
\* other filter on) apply_filters returns its input, dropping nothing.
C12_RatingThreshold ==
    /\ (Filtered /\ NumberOf(Threshold) > 0) =>
           /\ \A i \in DOMAIN ret.v : ScoreAtLeast(ret.v[i], Threshold)
           /\ OthersOff({"min_tmdb_rating"}) =>
                  ret.v = SelectSeq(arg, LAMBDA r : ScoreAtLeast(r, Threshold))
    /\ (op = "_filter_by_tmdb_rating" /\ ret.kind = "return") =>
           ret.v = SelectSeq(arg, LAMBDA r : ScoreAtLeast(r, Threshold))
    /\ (op = "apply_filters" /\ NumberOf(Threshold) = 0 /\ OthersOff({"min_tmdb_rating"})) =>
           ret = Return(arg)

\* threshold 7.0: a release scored 7.0 is kept, one scored below is dropped
C12_Witness ==
    /\ Filtered
    /\ Threshold = PyNum(70)
    /\ Len(arg) = 2
    /\ Get(arg[1], "vote_average", None) = PyNum(70)
    /\ ScoreAtLeast(arg[2], PyNum(0))
    /\ ~ScoreAtLeast(arg[2], Threshold)
    /\ ret.v = <<arg[1]>>

\* the configured allow-list of languages, empty when there is none
AllowedLanguages == Get(self.filters, "allowed_languages", PyList(<<>>))

\* the language of a release ("" for a dict without the key) is one of the list
LanguageIn(r, allowed) ==
    \E k \in DOMAIN allowed.v : allowed.v[k] = Get(r, "original_language", PyStr(<<>>))

\* C13: with a non-empty allowed_languages list a release is kept iff its
\* original_language is a member of the list, so a release with an empty or
\* missing language is dropped: every release of the output of apply_filters
\* has a listed language, the output is exactly the releases with a listed
\* language when no other filter is on, and so is the output of the language
\* stage alone; with the list empty or absent (and no other filter on)
\* apply_filters returns its input.
C13_AllowedLanguages ==
    /\ (Filtered /\ Truthy(AllowedLanguages)) =>
           /\ \A i \in DOMAIN ret.v : LanguageIn(ret.v[i], AllowedLanguages)
           /\ OthersOff({"allowed_languages"}) =>
                  ret.v = SelectSeq(arg, LAMBDA r : LanguageIn(r, AllowedLanguages))
    /\ op = "_filter_by_allowed_languages" =>
           ret = Return(SelectSeq(arg, LAMBDA r : LanguageIn(r, PyList(<<LangEn>>))))
    /\ (op = "apply_filters" /\ ~Truthy(AllowedLanguages) /\ OthersOff({"allowed_languages"})) =>
           ret = Return(arg)

\* allow-list ["en"]: a release whose language is "" is dropped, one in "en" kept
C13_Witness ==
    /\ Filtered
    /\ AllowedLanguages = PyList(<<LangEn>>)
    /\ Len(arg) = 2
    /\ Get(arg[1], "original_language", None) = PyStr(<<>>)
    /\ Get(arg[2], "original_language", None) = LangEn
    /\ ret.v = <<arg[2]>>

\* the configured deny-list of genres, empty when there is none
ExcludedGenres == Get(self.filters, "excluded_genres", PyList(<<>>))

\* two strings are equal ignoring letter case
SameIgnoringCase(a, b) == a.t = "str" /\ b.t = "str" /\ Upper(a) = Upper(b)

\* one of the genre names of a release equals, ignoring case, a denied one
GenreDenied(r, excluded) ==
    LET genres == Get(r, "genres", PyList(<<>>)) IN
    \E j \in DOMAIN genres.v :
        \E k \in DOMAIN excluded.v : SameIgnoringCase(genres.v[j], excluded.v[k])

\* C14: with a non-empty excluded_genres list a release is dropped iff one of
\* its genre names equals an excluded genre ignoring letter case: no release
\* of the output of apply_filters has such a genre, also when it passes the
\* rating threshold; the output is exactly the releases without one when no
\* other filter is on, and so is the output of the genre stage alone.
C14_ExcludedGenres ==
    /\ (Filtered /\ Truthy(ExcludedGenres)) =>
           /\ \A i \in DOMAIN ret.v : ~GenreDenied(ret.v[i], ExcludedGenres)
           /\ OthersOff({"excluded_genres"}) =>
                  ret.v = SelectSeq(arg, LAMBDA r : ~GenreDenied(r, ExcludedGenres))
    /\ (op = "_filter_by_excluded_genres" /\ ret.kind = "return") =>
           ret.v = SelectSeq(arg, LAMBDA r : ~GenreDenied(r, PyList(<<GenreHorrorUpper>>)))

\* deny-list ["HORROR"], threshold 7.0: a release scored 7.0 with the genre
\* "horror" passes the threshold and is dropped for its genre
C14_Witness ==
    /\ Filtered
    /\ NumberOf(Threshold) > 0
    /\ Truthy(ExcludedGenres)
    /\ OthersOff({"min_tmdb_rating", "excluded_genres"})
    /\ Len(arg) = 2
    /\ ScoreAtLeast(arg[1], Threshold)
    /\ GenreDenied(arg[1], ExcludedGenres)
    /\ \A j \in DOMAIN arg[1].genres.v : arg[1].genres.v[j] # ExcludedGenres.v[1]
    /\ ret.v = <<arg[2]>>

\* the configured deny-list of certifications, empty when there is none
ExcludedCertifications == Get(self.filters, "excluded_certifications", PyList(<<>>))

\* the certification of a release, if it has a non-empty one
HasCertification(r) ==
    "certification" \in DOMAIN r /\ r.certification.t = "str" /\ r.certification.v # <<>>

\* the certification of a release is non-empty and equals, ignoring case, a
\* denied one
CertDenied(r, excluded) ==
    /\ HasCertification(r)
    /\ \E k \in DOMAIN excluded.v : Lower(r.certification) = Lower(excluded.v[k])

\* C15: with a non-empty excluded_certifications list the certification stage
\* drops a release iff its certification is non-empty and equals an excluded
\* one ignoring letter case, and never drops a release whose certification is
\* empty or absent: no release of the output of apply_filters has a denied
\* certification, the output is exactly the releases without one when no
\* other filter is on, and so is the output of the certification stage alone.
C15_ExcludedCertifications ==
    /\ (Filtered /\ Truthy(ExcludedCertifications)) =>
           /\ \A i \in DOMAIN ret.v : ~CertDenied(ret.v[i], ExcludedCertifications)
           /\ OthersOff({"excluded_certifications"}) =>
                  /\ ret.v = SelectSeq(arg, LAMBDA r : ~CertDenied(r, ExcludedCertifications))
                  /\ \A i \in DOMAIN arg :
                         ~HasCertification(arg[i]) => \E j \in DOMAIN ret.v : ret.v[j] = arg[i]
    /\ op = "_filter_by_excluded_certifications" =>
           /\ ret = Return(SelectSeq(arg, LAMBDA r : ~CertDenied(r, PyList(<<CertRLower>>))))
           /\ \A i \in DOMAIN arg :
                  ~HasCertification(arg[i]) => \E j \in DOMAIN ret.v : ret.v[j] = arg[i]

\* deny-list ["r"]: a release certified "R" is dropped, one without a
\* certification is kept
C15_Witness ==
    /\ Filtered
    /\ ExcludedCertifications = PyList(<<CertRLower>>)
    /\ Len(arg) = 2
    /\ Get(arg[1], "certification", None) = CertR
    /\ ~HasCertification(arg[2])
    /\ ret.v = <<arg[2]>>

\* the exclude_adult setting is on
ExcludeAdult == Truthy(Get(self.filters, "exclude_adult", PyBool(FALSE)))

\* the adult flag of a release is true
IsAdult(r) == "adult" \in DOMAIN r /\ r.adult = PyBool(TRUE)

\* C16: with exclude_adult on, the output of apply_filters has no release
\* whose adult flag is true, and it is exactly the releases whose flag is
\* false or absent when no other filter is on, as is the output of the adult
\* stage alone; with exclude_adult off or absent (and no other filter on)
\* apply_filters returns its input, adult releases included.
C16_AdultFilter ==
    /\ (Filtered /\ ExcludeAdult) =>
           /\ \A i \in DOMAIN ret.v : ~IsAdult(ret.v[i])
           /\ OthersOff({"exclude_adult"}) =>
                  ret.v = SelectSeq(arg, LAMBDA r : ~IsAdult(r))
    /\ op = "_filter_adult" =>
           ret = Return(SelectSeq(arg, LAMBDA r : ~IsAdult(r)))
    /\ (op = "apply_filters" /\ ~ExcludeAdult /\ OthersOff({"exclude_adult"})) =>
           ret = Return(arg)

\* two releases, the first without an adult flag and the second adult, filter
\* to the first
C16_Witness ==
    /\ Filtered
    /\ ExcludeAdult
    /\ Len(arg) = 2
    /\ "adult" \notin DOMAIN arg[1]
    /\ IsAdult(arg[2])
    /\ ret.v = <<arg[1]>>

(***************************************************************************)
(* Properties of the notifier                                              *)
(***************************************************************************)
\* the result map has an entry under the stringified catalog id of the release
\* in which at least one sink reports success
SinkSucceeded(release, results) ==
    LET key == PyStrOf(Get(release, "tmdb_id", PyStr(<<>>))) IN
    /\ key \in DOMAIN results
    /\ \E sink \in DOMAIN results[key] : results[key][sink] = PyBool(TRUE)

\* C17: with the notifier enabled, send_release_notifications attempts a
\* delivery for a release iff the result map entry under its stringified
\* catalog id reports success for at least one sink: the POSTs are, in order,
\* one for each such release and none for any other, and the returned count
\* does not exceed the number of such releases.
C17_NotifyIffSucceeded ==
    (op = "send_release_notifications" /\ Present(self.webhook_url)) =>
        LET notifiable == SelectSeq(arg.releases, LAMBDA r : SinkSucceeded(r, arg.results)) IN
        /\ Len(http) = Len(notifiable)
        /\ \A i \in DOMAIN http :
               i \in DOMAIN notifiable => http[i].json.tmdb_id = notifiable[i].tmdb_id
        /\ ret.v <= Len(notifiable)

(***************************************************************************)
(* Properties of a Release                                                 *)
(***************************************************************************)
\* the detail record carries no number under key: the key is missing or null
NoScore(movie, key) == ~IsNumber(Get(movie, key, None))

\* C18: every Release the catalog client builds has numeric vote_average and
\* popularity, which are 0 when the detail record omits the score or carries
\* null for it, and its adult flag is false when the record omits the flag.
C18_NumericScores ==
    BuiltRelease =>
        LET movie == env.detail.json.v
            release == ret.v.v
        IN  /\ IsNumber(release.vote_average)
            /\ IsNumber(release.popularity)
            /\ NoScore(movie, "vote_average") => NumberOf(release.vote_average) = 0
            /\ NoScore(movie, "popularity") => NumberOf(release.popularity) = 0
            /\ "adult" \notin DOMAIN movie => release.adult = PyBool(FALSE)

(***************************************************************************)
(* Properties of the composition of the filter stages                      *)
(***************************************************************************)
\* the release satisfies the predicate of every stage the configuration enables
PassesEnabled(r) ==
    /\ ExcludeAdult => ~IsAdult(r)
    /\ NumberOf(Threshold) > 0 => ScoreAtLeast(r, Threshold)
    /\ Truthy(AllowedLanguages) => LanguageIn(r, AllowedLanguages)
    /\ Truthy(ExcludedGenres) => ~GenreDenied(r, ExcludedGenres)
    /\ Truthy(ExcludedCertifications) => ~CertDenied(r, ExcludedCertifications)

\* the configuration enables the stage
StageEnabled(name) ==
    CASE name = "_filter_adult" -> ExcludeAdult
      [] name = "_filter_by_tmdb_rating" -> NumberOf(Threshold) > 0
      [] name = "_filter_by_allowed_languages" -> Truthy(AllowedLanguages)
      [] name = "_filter_by_excluded_genres" -> Truthy(ExcludedGenres)
      [] name = "_filter_by_excluded_certifications" -> Truthy(ExcludedCertifications)

\* the stage, called with the setting apply_filters hands it
ConfiguredStage(name, releases) ==
    CASE name = "_filter_adult" -> _filter_adult(self, releases)
      [] name = "_filter_by_tmdb_rating" -> _filter_by_tmdb_rating(self, releases)
      [] name = "_filter_by_allowed_languages" ->
            _filter_by_allowed_languages(self, releases, AllowedLanguages)
      [] name = "_filter_by_excluded_genres" ->
            _filter_by_excluded_genres(self, releases, ExcludedGenres)
      [] name = "_filter_by_excluded_certifications" ->
            _filter_by_excluded_certifications(self, releases, ExcludedCertifications)

\* the outcome of running the enabled stages in the given order
RECURSIVE InOrder(_, _)
InOrder(order, releases) ==
    IF order = <<>> THEN Return(releases)
    ELSE IF ~StageEnabled(Head(order)) THEN InOrder(Tail(order), releases)
    ELSE LET r == ConfiguredStage(Head(order), releases).ret IN
         IF r.kind = "raise" THEN r ELSE InOrder(Tail(order), r.v)

\* the permutations of the five stages
StageOrders ==
    {o \in [1..Cardinality(StageNames) -> StageNames] :
        \A i, j \in DOMAIN o : i # j => o[i] # o[j]}

\* C19: every stage decides each release on its own fields only: the output
\* of apply_filters is exactly the input releases that satisfy the predicate
\* of every enabled stage, in input order; running the five stages in any
\* order gives the same outcome; and apply_filters applied to its own output
\* returns that output.
C19_StagesCommute ==
    op = "apply_filters" =>
        /\ ret = Return(SelectSeq(arg, PassesEnabled))
        /\ \A o \in StageOrders : InOrder(o, arg) = ret
        /\ ret.kind = "return" => apply_filters(self, ret.v).ret = ret
====
